---- MODULE Spec2Model ----
(***************************************************************************)
(* A model of the Beyond Presence n8n node: the webhook-event helpers      *)
(* (beyondPresenceHelpers) and the per-item loop of BeyondPresence.execute *)
(* for resource = webhook, as written in the last revision held in         *)
(* src/nodes/BeyondPresence/BeyondPresence.node.ts (lines 1477-2207).      *)
(*                                                                         *)
(* JavaScript values are tagged records.  A JavaScript string is the       *)
(* sequence of its atoms: an atom is one character wherever the code (or   *)
(* JSON.parse, parseInt, split, trim) looks at characters (digits, quote,  *)
(* comma, blank, braces ...) and an opaque word otherwise ("call_ended").  *)
(* An object is a function from its own keys to values; reading a key it   *)
(* does not have gives undefined.                                          *)
(***************************************************************************)
EXTENDS Integers, Sequences, FiniteSets, TLC

-----------------------------------------------------------------------------
(* JavaScript values                                                       *)

Undef == [t |-> "undefined"]
Null == [t |-> "null"]
Bool(b) == [t |-> "boolean", b |-> b]
Num(n) == [t |-> "number", n |-> n]
NaN == [t |-> "number", nan |-> TRUE]
Str(s) == [t |-> "string", s |-> s]
Arr(a) == [t |-> "array", a |-> a]
Obj(o) == [t |-> "object", o |-> o]

\* The string of one word.
W(word) == Str(<<word>>)

EmptyStr == Str(<< >>)

EmptyObj == Obj(<< >>)

IsNaN(v) == v.t = "number" /\ "nan" \in DOMAIN v

\* typeof v
TypeOf(v) ==
    CASE v.t = "undefined" -> "undefined"
      [] v.t = "boolean" -> "boolean"
      [] v.t = "number" -> "number"
      [] v.t = "string" -> "string"
      [] OTHER -> "object"

Nullish(v) == v.t \in {"undefined", "null"}

\* ToBoolean(v): what !v, v || w, v && w and v ? a : b test.
Truthy(v) ==
    CASE v.t \in {"undefined", "null"} -> FALSE
      [] v.t = "boolean" -> v.b
      [] v.t = "number" -> ~IsNaN(v) /\ v.n # 0
      [] v.t = "string" -> v.s # << >>
      [] OTHER -> TRUE

\* a || b
Or(a, b) == IF Truthy(a) THEN a ELSE b

\* a && b
And(a, b) == IF Truthy(a) THEN b ELSE a

\* v.k for a v that is neither null nor undefined.
Prop(v, k) ==
    CASE v.t = "object" -> IF k \in DOMAIN v.o THEN v.o[k] ELSE Undef
      [] v.t = "array" /\ k = "length" -> Num(Len(v.a))
      [] v.t = "string" /\ k = "length" -> Num(Len(v.s))
      [] OTHER -> Undef

\* v?.k
OptProp(v, k) == IF Nullish(v) THEN Undef ELSE Prop(v, k)

\* v[n] for a number n >= 0 and a v that is neither null nor undefined.
Index(v, n) ==
    CASE v.t = "array" -> IF n + 1 \in DOMAIN v.a THEN v.a[n + 1] ELSE Undef
      [] v.t = "string" -> IF n + 1 \in DOMAIN v.s THEN Str(<<v.s[n + 1]>>) ELSE Undef
      [] OTHER -> Undef

\* v > 0 for the values a length can be here (a number or undefined).
GreaterThanZero(v) == v.t = "number" /\ ~IsNaN(v) /\ v.n > 0

\* What a call gives: a value, or a thrown Error with its message.
Return(v) == [ok |-> TRUE, v |-> v]
Throw(msg) == [ok |-> FALSE, msg |-> msg]

\* The message of the TypeError of reading property k of null or undefined.
TypeErrorMessage(v, k) ==
    <<"Cannot read properties of ", v.t, " (reading '", k, "')">>

-----------------------------------------------------------------------------
(* Strings: String.prototype.trim, split(','), parseInt                    *)

Blank == " "

Digits == {"0", "1", "2", "3", "4", "5", "6", "7", "8", "9"}

DigitValue(c) ==
    CASE c = "0" -> 0 [] c = "1" -> 1 [] c = "2" -> 2 [] c = "3" -> 3
      [] c = "4" -> 4 [] c = "5" -> 5 [] c = "6" -> 6 [] c = "7" -> 7
      [] c = "8" -> 8 [] c = "9" -> 9

RECURSIVE TrimStart(_)
TrimStart(s) ==
    IF s # << >> /\ Head(s) = Blank THEN TrimStart(Tail(s)) ELSE s

RECURSIVE TrimEnd(_)
TrimEnd(s) ==
    IF s # << >> /\ s[Len(s)] = Blank
    THEN TrimEnd(SubSeq(s, 1, Len(s) - 1))
    ELSE s

\* s.trim()
Trim(s) == TrimEnd(TrimStart(s))

\* s.split(','): the pieces between the commas, in order (one piece, the
\* empty string, for the empty string).
RECURSIVE SplitFrom(_, _, _)
SplitFrom(s, cur, acc) ==
    IF s = << >> THEN Append(acc, cur)
    ELSE IF Head(s) = "," THEN SplitFrom(Tail(s), << >>, Append(acc, cur))
    ELSE SplitFrom(Tail(s), Append(cur, Head(s)), acc)

Split(s) == SplitFrom(s, << >>, << >>)

\* The number written by the longest run of decimal digits s starts with,
\* continuing from the value acc; n counts the digits read.
RECURSIVE DigitRun(_, _, _)
DigitRun(s, acc, n) ==
    IF s # << >> /\ Head(s) \in Digits
    THEN DigitRun(Tail(s), 10 * acc + DigitValue(Head(s)), n + 1)
    ELSE [value |-> acc, count |-> n, rest |-> s]

HexDigits == Digits \cup {"a", "b", "c", "d", "e", "f", "A", "B", "C", "D", "E", "F"}

HexDigitValue(c) ==
    CASE c \in Digits -> DigitValue(c)
      [] c \in {"a", "A"} -> 10 [] c \in {"b", "B"} -> 11
      [] c \in {"c", "C"} -> 12 [] c \in {"d", "D"} -> 13
      [] c \in {"e", "E"} -> 14 [] c \in {"f", "F"} -> 15

RECURSIVE HexRun(_, _, _)
HexRun(s, acc, n) ==
    IF s # << >> /\ Head(s) \in HexDigits
    THEN HexRun(Tail(s), 16 * acc + HexDigitValue(Head(s)), n + 1)
    ELSE [value |-> acc, count |-> n, rest |-> s]

\* The number a run of digits wrote, NaN when it has no digit.
RunValue(run) == IF run.count = 0 THEN NaN ELSE Num(run.value)

\* -v for the result of parseInt.
Negated(v) == IF IsNaN(v) THEN NaN ELSE Num(0 - v.n)

\* parseInt of a text with no leading blanks and no sign: a 0x prefix
\* selects base 16.
ParseUnsigned(u) ==
    IF Len(u) >= 2 /\ u[1] = "0" /\ u[2] \in {"x", "X"}
    THEN RunValue(HexRun(SubSeq(u, 3, Len(u)), 0, 0))
    ELSE RunValue(DigitRun(u, 0, 0))

\* parseInt of a text with no leading blanks.
ParseSigned(t) ==
    IF t # << >> /\ Head(t) = "-" THEN Negated(ParseUnsigned(Tail(t)))
    ELSE IF t # << >> /\ Head(t) = "+" THEN ParseUnsigned(Tail(t))
    ELSE ParseUnsigned(t)

\* parseInt(s) with no radix given: leading blanks are skipped, a sign is
\* read, a 0x prefix selects base 16, and the longest run of digits is the
\* result; NaN when there is no digit.
ParseInt(s) == ParseSigned(TrimStart(s))

-----------------------------------------------------------------------------
(* JSON.parse over the atoms of a text.  The structural characters, the    *)
(* quote, the digits and the minus sign are atoms of their own; null, true *)
(* and false are one atom each; every other atom is text inside a string.  *)
(* The texts hold no white space between tokens.                           *)

Quote == "\""

SyntaxError(s, p) ==
    IF p > Len(s) THEN <<"Unexpected end of JSON input">>
    ELSE <<"Unexpected token ", s[p], " in JSON">>

JsonFail(s, p) == [ok |-> FALSE, msg |-> SyntaxError(s, p)]

JsonOk(v, p) == [ok |-> TRUE, v |-> v, p |-> p]

\* The position of the first quote at or after p, or Len(s) + 1.
RECURSIVE ClosingQuote(_, _)
ClosingQuote(s, p) ==
    IF p > Len(s) \/ s[p] = Quote THEN p ELSE ClosingQuote(s, p + 1)

\* The string literal between the quotes at p and q.
StringBetween(s, p, q) ==
    IF q > Len(s) THEN JsonFail(s, q)
    ELSE JsonOk(Str(SubSeq(s, p + 1, q - 1)), q + 1)

\* A string literal whose opening quote is at p.
JsonString(s, p) == StringBetween(s, p, ClosingQuote(s, p + 1))

\* The number whose digits start at d and are the run, negative if neg:
\* there must be a digit, and no leading zero.
NumberOf(s, d, neg, run) ==
    IF run.count = 0 THEN JsonFail(s, d)
    ELSE IF s[d] = "0" /\ run.count > 1 THEN JsonFail(s, d + 1)
    ELSE JsonOk(Num(IF neg THEN 0 - run.value ELSE run.value), d + run.count)

\* A number starting at p: an optional minus sign, then digits.
JsonNumber(s, p) ==
    IF s[p] = "-"
    THEN NumberOf(s, p + 1, TRUE, DigitRun(SubSeq(s, p + 1, Len(s)), 0, 0))
    ELSE NumberOf(s, p, FALSE, DigitRun(SubSeq(s, p, Len(s)), 0, 0))

\* The object o with key k set to v (a repeated key keeps its last value).
Put(o, k, v) == [x \in DOMAIN o \cup {k} |-> IF x = k THEN v ELSE o[x]]

\* The key a string of atoms names.
RECURSIVE KeyOf(_)
KeyOf(s) == IF s = << >> THEN "" ELSE Head(s) \o KeyOf(Tail(s))

RECURSIVE JsonValue(_, _)
RECURSIVE JsonElements(_, _, _)
RECURSIVE AfterElement(_, _, _)
RECURSIVE JsonMembers(_, _, _)
RECURSIVE AfterKey(_, _, _)
RECURSIVE AfterMember(_, _, _, _)

JsonValue(s, p) ==
    IF p > Len(s) THEN JsonFail(s, p)
    ELSE CASE s[p] = "null" -> JsonOk(Null, p + 1)
           [] s[p] = "true" -> JsonOk(Bool(TRUE), p + 1)
           [] s[p] = "false" -> JsonOk(Bool(FALSE), p + 1)
           [] s[p] = Quote -> JsonString(s, p)
           [] s[p] \in Digits \cup {"-"} -> JsonNumber(s, p)
           [] s[p] = "[" ->
                IF p < Len(s) /\ s[p + 1] = "]" THEN JsonOk(Arr(<< >>), p + 2)
                ELSE JsonElements(s, p + 1, << >>)
           [] s[p] = "{" ->
                IF p < Len(s) /\ s[p + 1] = "}" THEN JsonOk(EmptyObj, p + 2)
                ELSE JsonMembers(s, p + 1, << >>)
           [] OTHER -> JsonFail(s, p)

\* The elements of a list from p on, after those in acc.
JsonElements(s, p, acc) == AfterElement(s, JsonValue(s, p), acc)

\* After the element r: a comma and more elements, or the closing bracket.
AfterElement(s, r, acc) ==
    IF ~r.ok THEN r
    ELSE IF r.p > Len(s) THEN JsonFail(s, r.p)
    ELSE IF s[r.p] = "," THEN JsonElements(s, r.p + 1, Append(acc, r.v))
    ELSE IF s[r.p] = "]" THEN JsonOk(Arr(Append(acc, r.v)), r.p + 1)
    ELSE JsonFail(s, r.p)

\* The members of an object from p on, added to those in acc.
JsonMembers(s, p, acc) ==
    IF p > Len(s) \/ s[p] # Quote THEN JsonFail(s, p)
    ELSE AfterKey(s, JsonString(s, p), acc)

\* After the key k: a colon and the value.
AfterKey(s, k, acc) ==
    IF ~k.ok THEN k
    ELSE IF k.p > Len(s) \/ s[k.p] # ":" THEN JsonFail(s, k.p)
    ELSE AfterMember(s, KeyOf(k.v.s), JsonValue(s, k.p + 1), acc)

\* After the member key: r, a comma and more members, or the closing brace.
AfterMember(s, key, r, acc) ==
    IF ~r.ok THEN r
    ELSE IF r.p > Len(s) THEN JsonFail(s, r.p)
    ELSE IF s[r.p] = "," THEN JsonMembers(s, r.p + 1, Put(acc, key, r.v))
    ELSE IF s[r.p] = "}" THEN JsonOk(Obj(Put(acc, key, r.v)), r.p + 1)
    ELSE JsonFail(s, r.p)

\* The value r if the text s ends where r does.
WholeText(s, r) ==
    IF ~r.ok THEN Throw(r.msg)
    ELSE IF r.p <= Len(s) THEN Throw(SyntaxError(s, r.p))
    ELSE Return(r.v)

\* JSON.parse(s): the value the whole text denotes, or a SyntaxError.
JSONparse(s) == WholeText(s, JsonValue(s, 1))

-----------------------------------------------------------------------------
(* beyondPresenceHelpers                                                   *)

\* The lookup of the first revision, which read agent_id too:
\* agent_id, agentId, call_data.agent_id, call_data.agentId.
getAgentIdWithAliases(data) ==
    Or(Or(Or(Or(Prop(data, "agent_id"), Prop(data, "agentId")),
             OptProp(Prop(data, "call_data"), "agent_id")),
          OptProp(Prop(data, "call_data"), "agentId")),
       EmptyStr)

\* data.call_data?.agentId || data.agentId || ''
getAgentId(data) ==
    Or(Or(OptProp(Prop(data, "call_data"), "agentId"), Prop(data, "agentId")),
       EmptyStr)

parseDurationMinutes(duration) ==
    IF TypeOf(duration) = "string" THEN ParseInt(duration.s)
    ELSE Or(duration, Num(0))

\* The count without the fallback to the length of messages: count || 0.
parseMessageCountWithoutFallback(count, messages) ==
    IF TypeOf(count) = "string" THEN ParseInt(count.s)
    ELSE Or(count, Num(0))

parseMessageCount(count, messages) ==
    IF TypeOf(count) = "string" THEN ParseInt(count.s)
    ELSE Or(count, Or(OptProp(messages, "length"), Num(0)))

\* parseWebhookData without the decoding of a text.
decodeRawWithoutParse(webhookDataRaw) == Return(webhookDataRaw)

\* if (typeof webhookDataRaw === 'string') JSON.parse(...) else the value.
decodeRaw(webhookDataRaw) ==
    IF TypeOf(webhookDataRaw) = "string" THEN JSONparse(webhookDataRaw.s)
    ELSE Return(webhookDataRaw)

\* The inner block of parseWebhookData on the decoded value: a parse error
\* is thrown again as 'Invalid webhook JSON: ...', and the value must be
\* truthy with typeof "object".
validateDecoded(decoded) ==
    IF ~decoded.ok THEN Throw(<<"Invalid webhook JSON: ">> \o decoded.msg)
    ELSE IF ~Truthy(decoded.v) \/ TypeOf(decoded.v) # "object"
    THEN Throw(<<"Invalid webhook data: Must be a valid object">>)
    ELSE decoded

\* The outer catch of parseWebhookData: every error of the inner block is
\* thrown again with the prefix 'Invalid webhook data: '.
rethrowInvalid(r) ==
    IF r.ok THEN r ELSE Throw(<<"Invalid webhook data: ">> \o r.msg)

parseWebhookData(webhookDataRaw) ==
    rethrowInvalid(validateDecoded(decodeRaw(webhookDataRaw)))

\* m.message for the element m of messages: the read fails on an element
\* that is null or undefined.
messageOf(m) ==
    IF Nullish(m) THEN Throw(TypeErrorMessage(m, "message"))
    ELSE Return(Prop(m, "message"))

\* messages && messages.length > 0
HasMessages(messages) ==
    Truthy(messages) /\ GreaterThanZero(Prop(messages, "length"))

\* messages && messages.length > 0 ? messages[0].message : ''
firstMessage(messages) ==
    IF HasMessages(messages) THEN messageOf(Index(messages, 0))
    ELSE Return(EmptyStr)

\* last_message written like first_message: messages[0].message.
lastMessageIsFirst(messages) == firstMessage(messages)

\* messages && messages.length > 0 ? messages[messages.length - 1].message : ''
lastMessage(messages) ==
    IF HasMessages(messages)
    THEN messageOf(Index(messages, Prop(messages, "length").n - 1))
    ELSE Return(EmptyStr)

\* The callback reading msg.timestamp where the payload has sent_at.
ProcessedMessageTimestampKey(msg) ==
    Obj([sender |-> Or(Prop(msg, "sender"), EmptyStr),
         message |-> Or(Prop(msg, "message"), EmptyStr),
         timestamp |-> Or(Prop(msg, "timestamp"), EmptyStr)])

\* The callback of the map over the messages.
ProcessedMessage(msg) ==
    Obj([sender |-> Or(Prop(msg, "sender"), EmptyStr),
         message |-> Or(Prop(msg, "message"), EmptyStr),
         timestamp |-> Or(Prop(msg, "sent_at"), EmptyStr)])

\* The first element of a that is null or undefined.
FirstNullish(a) ==
    a[CHOOSE j \in DOMAIN a :
        Nullish(a[j]) /\ \A h \in 1..(j - 1) : ~Nullish(a[h])]

\* list.map(msg => ...): only a list has map, and the callback fails on the
\* first element that is null or undefined.
mapList(list) ==
    IF list.t # "array"
    THEN Throw(<<"(callEndedEvent.messages || []).map is not a function">>)
    ELSE IF \E k \in DOMAIN list.a : Nullish(list.a[k])
    THEN Throw(TypeErrorMessage(FirstNullish(list.a), "sender"))
    ELSE Return(Arr([k \in DOMAIN list.a |-> ProcessedMessage(list.a[k])]))

\* (messages || []).map(msg => ...)
mapMessages(messages) == mapList(Or(messages, Arr(<< >>)))

\* user.name with the two sources in the other order: call_data.userName
\* before user_name.
userOfCallDataFirst(callEndedEvent, call_data) ==
    Obj([name |-> Or(Or(And(call_data, Prop(call_data, "userName")),
                        Prop(callEndedEvent, "user_name")),
                     W("Unknown"))])

\* user: { name: user_name || (call_data && call_data.userName) || 'Unknown' }
userOf(callEndedEvent, call_data) ==
    Obj([name |-> Or(Or(Prop(callEndedEvent, "user_name"),
                        And(call_data, Prop(call_data, "userName"))),
                     W("Unknown"))])

\* call_summary with '' as the default of user_sentiment, like the defaults
\* of its other texts.
callSummaryOfEmptySentiment(evaluation, durationMinutes, messageCount, first, last) ==
    Obj([duration_minutes |-> durationMinutes,
         message_count |-> messageCount,
         first_message |-> first.v,
         last_message |-> last.v,
         user_sentiment |->
            Or(OptProp(evaluation, "user_sentiment"), EmptyStr)])

\* call_summary: { ... }
callSummaryOf(evaluation, durationMinutes, messageCount, first, last) ==
    Obj([duration_minutes |-> durationMinutes,
         message_count |-> messageCount,
         first_message |-> first.v,
         last_message |-> last.v,
         user_sentiment |->
            Or(OptProp(evaluation, "user_sentiment"), W("Unknown"))])

\* The record processCallEndedEvent returns, from the values its
\* expressions gave; the first of first, last, mapped that threw is the
\* error of the call.
callEndedRecord(callEndedEvent, evaluation, call_data, durationMinutes, messageCount, first, last, mapped) ==
    IF ~first.ok THEN first
    ELSE IF ~last.ok THEN last
    ELSE IF ~mapped.ok THEN mapped
    ELSE Return(Obj(
        [call_id |-> Or(Prop(callEndedEvent, "call_id"), EmptyStr),
         agent_id |-> getAgentId(callEndedEvent),
         call_details |-> Obj(
            [duration_minutes |-> durationMinutes,
             message_count |-> messageCount,
             topic |-> Or(OptProp(evaluation, "topic"), W("Unknown")),
             user_sentiment |->
                Or(OptProp(evaluation, "user_sentiment"), W("Unknown"))]),
         user |-> userOf(callEndedEvent, call_data),
         call_summary |->
            callSummaryOf(evaluation, durationMinutes, messageCount, first, last),
         messages |-> mapped.v,
         event_type |-> W("call_ended")]))

\* processCallEndedEvent on the fields it reads.
callEndedOf(callEndedEvent, evaluation, messages) ==
    callEndedRecord(
        callEndedEvent, evaluation, Prop(callEndedEvent, "call_data"),
        parseDurationMinutes(OptProp(evaluation, "duration_minutes")),
        parseMessageCount(OptProp(evaluation, "messages_count"), messages),
        firstMessage(messages), lastMessage(messages), mapMessages(messages))

processCallEndedEvent(callEndedEvent) ==
    callEndedOf(callEndedEvent, Prop(callEndedEvent, "evaluation"),
                Prop(callEndedEvent, "messages"))

\* The message record of the earlier revision, which had call_timing too.
processMessageEventWithCallTiming(messageEvent) ==
    Return(Obj(
        [call_id |-> Or(Prop(messageEvent, "call_id"), EmptyStr),
         agent_id |-> getAgentId(messageEvent),
         user |-> Obj(
            [name |-> Or(OptProp(Prop(messageEvent, "call_data"), "userName"),
                         W("Unknown"))]),
         message |-> Obj(
            [sender |->
                Or(OptProp(Prop(messageEvent, "message"), "sender"), EmptyStr),
             content |->
                Or(OptProp(Prop(messageEvent, "message"), "message"), EmptyStr),
             timestamp |->
                Or(OptProp(Prop(messageEvent, "message"), "sent_at"), EmptyStr)]),
         call_timing |-> Obj(
            [started_at |->
                Or(OptProp(Prop(messageEvent, "call_data"), "startedAt"), EmptyStr)]),
         event_type |-> W("message")]))

processMessageEvent(messageEvent) ==
    Return(Obj(
        [call_id |-> Or(Prop(messageEvent, "call_id"), EmptyStr),
         agent_id |-> getAgentId(messageEvent),
         user |-> Obj(
            [name |-> Or(OptProp(Prop(messageEvent, "call_data"), "userName"),
                         W("Unknown"))]),
         message |-> Obj(
            [sender |->
                Or(OptProp(Prop(messageEvent, "message"), "sender"), EmptyStr),
             content |->
                Or(OptProp(Prop(messageEvent, "message"), "message"), EmptyStr),
             timestamp |->
                Or(OptProp(Prop(messageEvent, "message"), "sent_at"), EmptyStr)]),
         event_type |-> W("message")]))

\* The minimal record without the defaults of event_type and call_id.
minimalRecordWithoutDefaults(webhookData, extractedAgentId) ==
    Return(Obj(
        [event_type |-> Prop(webhookData, "event_type"),
         call_id |-> Prop(webhookData, "call_id"),
         agent_id |-> extractedAgentId]))

\* The minimal record with its agent_id read from the payload's agent_id
\* instead of the agent ID the filter tested.
minimalRecordOwnAgentId(webhookData, extractedAgentId) ==
    Return(Obj(
        [event_type |-> Or(Prop(webhookData, "event_type"), W("unknown")),
         call_id |-> Or(Prop(webhookData, "call_id"), EmptyStr),
         agent_id |-> Or(Prop(webhookData, "agent_id"), EmptyStr)]))

\* The record built for an event that is neither call_ended nor message.
minimalRecord(webhookData, extractedAgentId) ==
    Return(Obj(
        [event_type |-> Or(Prop(webhookData, "event_type"), W("unknown")),
         call_id |-> Or(Prop(webhookData, "call_id"), EmptyStr),
         agent_id |-> extractedAgentId]))

\* The three-way classification on event_type.
normalize(webhookData, extractedAgentId) ==
    IF Prop(webhookData, "event_type") = W("call_ended")
    THEN processCallEndedEvent(webhookData)
    ELSE IF Prop(webhookData, "event_type") = W("message")
    THEN processMessageEvent(webhookData)
    ELSE minimalRecord(webhookData, extractedAgentId)

-----------------------------------------------------------------------------
(* BeyondPresence.execute, resource = webhook: one pass of the loop body   *)
(* for an item.  An item is the input item (json) with the node parameters *)
(* getNodeParameter resolves for it.                                       *)

\* The check without its trim: !agentIdsString alone.
agentIdsMissingEmptyOnly(agentIdsString) == agentIdsString = << >>

\* !agentIdsString || agentIdsString.trim() === ''
agentIdsMissing(agentIdsString) ==
    agentIdsString = << >> \/ Trim(agentIdsString) = << >>

\* parts.map(id => id.trim())
trimEach(parts) == [k \in DOMAIN parts |-> Trim(parts[k])]

\* agentIdsString.split(',').map(id => id.trim())
splitAgentIds(agentIdsString) == trimEach(Split(agentIdsString))

\* agentIds.includes(id): a string of the list equal to id.
includes(agentIds, id) ==
    id.t = "string" /\ \E k \in DOMAIN agentIds : agentIds[k] = id.s

\* The event-type filter applied only to events that have an event_type.
skippedByEventTypeWhenPresent(eventType, webhookData) ==
    /\ eventType # W("all")
    /\ Truthy(Prop(webhookData, "event_type"))
    /\ Prop(webhookData, "event_type") # eventType

\* eventType !== 'all' && webhookData.event_type !== eventType
skippedByEventType(eventType, webhookData) ==
    eventType # W("all") /\ Prop(webhookData, "event_type") # eventType

\* The agent-ID filter without the membership test: only events with no
\* agent ID are skipped.
skippedByAgentIdEmptyOnly(filterByAgentIds, agentIds, extractedAgentId) ==
    /\ filterByAgentIds
    /\ Len(agentIds) > 0
    /\ ~Truthy(extractedAgentId)

\* The agent-ID filter without its test of an empty agent ID:
\* !agentIds.includes(extractedAgentId) alone.
skippedByAgentIdIncludesOnly(filterByAgentIds, agentIds, extractedAgentId) ==
    /\ filterByAgentIds
    /\ Len(agentIds) > 0
    /\ ~includes(agentIds, extractedAgentId)

\* filterByAgentIds && agentIds.length > 0 &&
\*   (!extractedAgentId || !agentIds.includes(extractedAgentId))
skippedByAgentId(filterByAgentIds, agentIds, extractedAgentId) ==
    /\ filterByAgentIds
    /\ Len(agentIds) > 0
    /\ (~Truthy(extractedAgentId) \/ ~includes(agentIds, extractedAgentId))

\* How the try block ends for an item: a record pushed, the item skipped
\* (continue), or an error thrown.  steps lists what was done, in order.
Emitted(json, steps) == [kind |-> "emit", json |-> json, steps |-> steps]

Skipped(steps) == [kind |-> "skip", steps |-> steps]

Failed(msg, steps) == [kind |-> "throw", msg |-> msg, steps |-> steps]

PassedThrough(steps) == [kind |-> "passthrough", steps |-> steps]

\* The end of the try block for the record normalization gave.
pushProcessed(processedData) ==
    IF ~processedData.ok
    THEN Failed(processedData.msg,
                <<"params", "parse", "eventTypeFilter", "agentIdFilter",
                  "normalize">>)
    ELSE Emitted(processedData.v,
                 <<"params", "parse", "eventTypeFilter", "agentIdFilter",
                   "normalize", "push">>)

\* The filters without the event-type filter.
filterAndNormalizeAnyType(item, agentIds, webhookData, extractedAgentId) ==
    IF skippedByAgentId(item.filterByAgentIds, agentIds, extractedAgentId)
    THEN Skipped(<<"params", "parse", "eventTypeFilter", "agentIdFilter">>)
    ELSE pushProcessed(normalize(webhookData, extractedAgentId))

\* From the event-type filter on, for the event the payload parsed to and
\* the agent ID getAgentId extracted from it.
filterAndNormalize(item, agentIds, webhookData, extractedAgentId) ==
    IF skippedByEventType(item.eventType, webhookData)
    THEN Skipped(<<"params", "parse", "eventTypeFilter">>)
    ELSE IF skippedByAgentId(item.filterByAgentIds, agentIds, extractedAgentId)
    THEN Skipped(<<"params", "parse", "eventTypeFilter", "agentIdFilter">>)
    ELSE pushProcessed(normalize(webhookData, extractedAgentId))

\* From the result of parseWebhookData on.
afterParse(item, agentIds, parsed) ==
    IF ~parsed.ok THEN Failed(parsed.msg, <<"params", "parse">>)
    ELSE filterAndNormalize(item, agentIds, parsed.v, getAgentId(parsed.v))

\* The branch with the payload parsed first: the check of the agentIds
\* string comes after parseWebhookData.
handleEventParseFirst(item) ==
    IF ~Truthy(item.webhookData)
    THEN Failed(<<"Missing webhook data">>, <<"params">>)
    ELSE IF ~parseWebhookData(item.webhookData).ok
    THEN Failed(parseWebhookData(item.webhookData).msg, <<"params", "parse">>)
    ELSE IF item.filterByAgentIds /\ agentIdsMissing(item.agentIds)
    THEN Failed(<<"Agent IDs required when filtering is enabled">>,
                <<"params", "parse">>)
    ELSE afterParse(item,
                    IF item.filterByAgentIds THEN splitAgentIds(item.agentIds)
                    ELSE << >>,
                    parseWebhookData(item.webhookData))

\* The branch operation === 'handleEvent'.
handleEvent(item) ==
    IF item.filterByAgentIds /\ agentIdsMissing(item.agentIds)
    THEN Failed(<<"Agent IDs required when filtering is enabled">>, <<"params">>)
    ELSE IF ~Truthy(item.webhookData)
    THEN Failed(<<"Missing webhook data">>, <<"params">>)
    ELSE afterParse(item,
                    IF item.filterByAgentIds THEN splitAgentIds(item.agentIds)
                    ELSE << >>,
                    parseWebhookData(item.webhookData))

\* The try block of the loop body.
tryItem(item) ==
    IF item.operation = "handleEvent" THEN handleEvent(item)
    ELSE PassedThrough(<<"push">>)

-----------------------------------------------------------------------------
(* State                                                                   *)

VARIABLES
    items,           \* this.getInputData() with the parameters of each item
    continueOnFail,  \* what this.continueOnFail() answers
    i,               \* the loop index
    returnItems,     \* the records pushed so far
    pc,              \* "loop", "returned" or "thrown"
    output,          \* the list execute returned
    thrown,          \* the message of the error execute threw
    log,             \* <<index, step>> for every step taken, in order
    call,            \* a helper applied on its own: its name and argument
    result           \* what that helper gave

vars == <<items, continueOnFail, i, returnItems, pc, output, thrown, log,
          call, result>>

execVars == <<items, continueOnFail, i, returnItems, pc, output, thrown, log>>

\* The steps of item n, as log entries.
Logged(n, steps) == [k \in DOMAIN steps |-> <<n, steps[k]>>]

\* The record the catch block pushes under continueOnFail(): pairedItem: 0,
\* a slip for pairedItem: { item: i }.
errorItemPairedWithFirst(msg, n) ==
    [json |-> Obj([error |-> Str(msg)]), pairedItem |-> 0]

\* The record the catch block pushes under continueOnFail().
errorItem(msg, n) == [json |-> Obj([error |-> Str(msg)]), pairedItem |-> n]

\* The record pushed for a processed event, paired with the item before it
\* (a slip for pairedItem: { item: i }).
processedItemPairedWithPrevious(json, n) ==
    [json |-> json, pairedItem |-> IF n > 0 THEN n - 1 ELSE 0]

\* The record pushed for a processed event.
processedItem(json, n) == [json |-> json, pairedItem |-> n]

\* The catch block without its throw: the error is dropped when
\* continueOnFail() is off, and the loop goes on.
catchErrorSwallows(r) ==
    IF continueOnFail
    THEN /\ returnItems' = Append(returnItems, errorItem(r.msg, i))
         /\ i' = i + 1
         /\ log' = log \o Logged(i, r.steps \o <<"error">>)
         /\ UNCHANGED <<pc, thrown>>
    ELSE /\ i' = i + 1
         /\ log' = log \o Logged(i, r.steps)
         /\ UNCHANGED <<returnItems, pc, thrown>>

\* The catch block, for the error r of the try block: under
\* continueOnFail() an error record is pushed and the loop continues;
\* otherwise the error is thrown out of execute.
catchError(r) ==
    IF continueOnFail
    THEN /\ returnItems' = Append(returnItems, errorItem(r.msg, i))
         /\ i' = i + 1
         /\ log' = log \o Logged(i, r.steps \o <<"error">>)
         /\ UNCHANGED <<pc, thrown>>
    ELSE /\ pc' = "thrown"
         /\ thrown' = r.msg
         /\ log' = log \o Logged(i, r.steps \o <<"throw">>)
         /\ UNCHANGED <<returnItems, i>>

\* The loop body keeping state across items: a record equal to one
\* already pushed for an earlier item is dropped.
afterTryDropsRepeated(item, r) ==
    CASE r.kind = "emit" ->
           /\ returnItems' =
                 IF \E k \in DOMAIN returnItems : returnItems[k].json = r.json
                 THEN returnItems
                 ELSE Append(returnItems, processedItem(r.json, i))
           /\ i' = i + 1
           /\ log' = log \o Logged(i, r.steps)
           /\ UNCHANGED <<pc, thrown>>
      [] r.kind = "passthrough" ->
           /\ returnItems' = Append(returnItems, [json |-> item.json])
           /\ i' = i + 1
           /\ log' = log \o Logged(i, r.steps)
           /\ UNCHANGED <<pc, thrown>>
      [] r.kind = "skip" ->
           /\ i' = i + 1
           /\ log' = log \o Logged(i, r.steps)
           /\ UNCHANGED <<returnItems, pc, thrown>>
      [] r.kind = "throw" -> catchError(r)

\* What follows the try block on item ending as r: the push of the record,
\* the continue of a skipped item, or the catch block.
afterTry(item, r) ==
    CASE r.kind = "emit" ->
           /\ returnItems' = Append(returnItems, processedItem(r.json, i))
           /\ i' = i + 1
           /\ log' = log \o Logged(i, r.steps)
           /\ UNCHANGED <<pc, thrown>>
      [] r.kind = "passthrough" ->
           /\ returnItems' = Append(returnItems, [json |-> item.json])
           /\ i' = i + 1
           /\ log' = log \o Logged(i, r.steps)
           /\ UNCHANGED <<pc, thrown>>
      [] r.kind = "skip" ->
           /\ i' = i + 1
           /\ log' = log \o Logged(i, r.steps)
           /\ UNCHANGED <<returnItems, pc, thrown>>
      [] r.kind = "throw" -> catchError(r)

\* One pass of the loop that writes the parsed payload back into the item:
\* a text given as webhookData is replaced by the value it decodes to.
ProcessItemStoresParsed ==
    /\ pc = "loop"
    /\ i < Len(items)
    /\ afterTry(items[i + 1], tryItem(items[i + 1]))
    /\ items' = [items EXCEPT ![i + 1].webhookData =
                    IF parseWebhookData(@).ok THEN parseWebhookData(@).v ELSE @]
    /\ UNCHANGED <<continueOnFail, output, call, result>>

\* One pass of the loop, on items[i].
ProcessItem ==
    /\ pc = "loop"
    /\ i < Len(items)
    /\ afterTry(items[i + 1], tryItem(items[i + 1]))
    /\ UNCHANGED <<items, continueOnFail, output, call, result>>

\* return this.prepareOutputData(returnItems), once the loop is over.
ReturnOutput ==
    /\ pc = "loop"
    /\ i = Len(items)
    /\ pc' = "returned"
    /\ output' = returnItems
    /\ UNCHANGED <<items, continueOnFail, i, returnItems, thrown, log, call, result>>

Next == ProcessItem \/ ReturnOutput

-----------------------------------------------------------------------------
(* Inputs                                                                  *)

\* The longest messages list of the generated events.
MaxMessages == 2

\* The longest batch of input items.
MaxItems == 3

\* Marks a key an object is built without.
Absent == [t |-> "absent"]

\* The object with the keys of r that are not Absent.
MkObj(r) == Obj([k \in {x \in DOMAIN r : r[x] # Absent} |-> r[k]])

SeqsUpTo(S, n) == UNION {[1..k -> S] : k \in 0..n}

\* WebhookMessage, and elements a loosely typed payload can hold instead.
MessageElements ==
    {Obj([sender |-> W("user"), message |-> W("hi"), sent_at |-> W("t1")]),
     Obj([sender |-> W("agent"), message |-> W("bye"), sent_at |-> W("t2")]),
     Obj([sender |-> W("agent")]),
     Null}

MessagesValues ==
    {Arr(a) : a \in SeqsUpTo(MessageElements, MaxMessages)}
        \cup {Absent, Null, W("abc"), Num(5)}

\* CallData
CallDataValues ==
    {Absent, Null, EmptyObj,
     Obj([userName |-> W("Ann"), agentId |-> W("a1")]),
     Obj([agentId |-> W("a3")]),
     Obj([agentId |-> EmptyStr, agent_id |-> W("a2")])}

\* agentId and agent_id at the top level of the payload.
TopAgentIdValues == {Absent, W("a1"), W("a9")}

TopAgentUnderscoreValues == {Absent, W("a2")}

EvaluationValues ==
    {Absent, Null, EmptyObj,
     Obj([duration_minutes |-> Str(<<"1", "2">>), messages_count |-> Num(2),
          topic |-> W("demo"), user_sentiment |-> W("positive")]),
     Obj([duration_minutes |-> Num(7), messages_count |-> Str(<<"3">>)])}

MessageValues ==
    {Absent, Null,
     Obj([sender |-> W("user"), message |-> W("hi"), sent_at |-> W("t0")])}

CallIdValues == {Absent, W("c1")}

UserNameValues == {Absent, W("Bob")}

\* MessageEvent
MessageEvents ==
    {MkObj([event_type |-> W("message"), call_id |-> c, call_data |-> cd,
            agentId |-> a, agent_id |-> u, message |-> m]) :
        c \in CallIdValues, cd \in CallDataValues, a \in TopAgentIdValues,
        u \in TopAgentUnderscoreValues, m \in MessageValues}

\* CallEndedEvent, with the given choices of evaluation, messages, user_name.
CallEndedEventsOf(evaluations, messagesValues, userNames) ==
    {MkObj([event_type |-> W("call_ended"), call_id |-> W("c2"),
            call_data |-> cd, agentId |-> a, evaluation |-> ev,
            messages |-> ms, user_name |-> un]) :
        cd \in CallDataValues, a \in TopAgentIdValues, ev \in evaluations,
        ms \in messagesValues, un \in userNames}

CallEndedEvents ==
    CallEndedEventsOf(EvaluationValues, MessagesValues, UserNameValues)

\* BaseWebhookData with another event_type, or none.
OtherEvents ==
    {MkObj([event_type |-> t, call_id |-> c, call_data |-> cd, agentId |-> a,
            agent_id |-> u]) :
        t \in {Absent, W("ping")}, c \in CallIdValues, cd \in CallDataValues,
        a \in TopAgentIdValues, u \in TopAgentUnderscoreValues}

Events == MessageEvents \cup CallEndedEvents \cup OtherEvents

\* JSON texts: of a message event, of a call_ended event without evaluation,
\* of values that are no object, and texts that do not decode.
MessageEventText ==
    <<"{", Quote, "event_type", Quote, ":", Quote, "message", Quote, ",",
      Quote, "call_id", Quote, ":", Quote, "c1", Quote, ",",
      Quote, "call_data", Quote, ":", "{", Quote, "agentId", Quote, ":",
      Quote, "a1", Quote, "}", "}">>

CallEndedEventText ==
    <<"{", Quote, "event_type", Quote, ":", Quote, "call_ended", Quote, ",",
      Quote, "messages", Quote, ":", "[", "null", "]", "}">>

ObjectTexts == {MessageEventText, CallEndedEventText, <<"{", "}">>}

NonObjectTexts ==
    {<<"null">>, <<"true">>, <<"4", "2">>, <<"0">>, <<Quote, "hi", Quote>>,
     <<"[", "]">>, <<"[", "1", ",", "{", "}", "]">>}

MalformedTexts ==
    {<<"{">>, <<"{", Quote, "event_type", Quote, "}">>, <<"oops">>,
     <<"[", "1", ",", "]">>, <<"{", "}", "}">>, <<Quote, "hi">>}

Texts == {Str(s) : s \in ObjectTexts \cup NonObjectTexts \cup MalformedTexts}

\* Structured values that are no object with keys.
NonObjects ==
    {Undef, Null, EmptyStr, Num(0), Num(5), Bool(FALSE), Bool(TRUE),
     Arr(<< >>), Arr(<<Num(1)>>)}

\* What the webhookData parameter can hold.
RawPayloads == Events \cup Texts \cup NonObjects

\* The events of the items of a one-item batch.
ItemEvents ==
    MessageEvents \cup OtherEvents \cup
    CallEndedEventsOf(
        {Absent,
         Obj([duration_minutes |-> Str(<<"1", "2">>), messages_count |-> Num(2),
              topic |-> W("demo"), user_sentiment |-> W("positive")])},
        {Absent, Arr(<<Obj([sender |-> W("agent")])>>), Arr(<<Null>>)},
        {Absent})

ItemPayloads == ItemEvents \cup Texts \cup NonObjects

\* The eventType options of the node.
EventTypeValues == {W("all"), W("message"), W("call_ended")}

\* Values of the agentIds parameter.
AgentIdsValues ==
    {<< >>, <<" ">>, <<"a1", ",", "a2">>, <<" ", "a1", " ", ",", "a2", " ">>,
     <<",">>, <<"a1">>}

Item(operation, eventType, filterByAgentIds, agentIds, webhookData) ==
    [json |-> Obj([body |-> webhookData]),
     operation |-> operation,
     eventType |-> eventType,
     filterByAgentIds |-> filterByAgentIds,
     agentIds |-> agentIds,
     webhookData |-> webhookData]

\* Every configuration with every payload, one item at a time.
RichItems ==
    {Item("handleEvent", et, FALSE, << >>, wd) :
        et \in EventTypeValues, wd \in ItemPayloads}
    \cup
    {Item("handleEvent", et, TRUE, ids, wd) :
        et \in EventTypeValues, ids \in AgentIdsValues, wd \in ItemPayloads}

\* Sample payloads of the batches.
SampleMessage ==
    Obj([event_type |-> W("message"), call_id |-> W("c1"),
         message |-> Obj([sender |-> W("user"), message |-> W("hi"),
                          sent_at |-> W("t0")]),
         call_data |-> Obj([userName |-> W("Ann"), agentId |-> W("a1")])])

SampleCallEnded(agentId, messages) ==
    Obj([event_type |-> W("call_ended"), call_id |-> W("c2"),
         evaluation |-> Obj([duration_minutes |-> Str(<<"1", "2">>),
                             messages_count |-> Num(2), topic |-> W("demo"),
                             user_sentiment |-> W("positive")]),
         messages |-> messages,
         call_data |-> Obj([agentId |-> agentId])])

SamplePing == Obj([event_type |-> W("ping")])

\* The items batches are made of: one of each way an item can end.
BatchItems ==
    {Item("handleEvent", W("all"), FALSE, << >>, SampleMessage),
     Item("handleEvent", W("call_ended"), FALSE, << >>, SampleMessage),
     Item("handleEvent", W("all"), TRUE, <<"a1", ",", "a2">>,
          SampleCallEnded(W("a3"), Arr(<< >>))),
     Item("handleEvent", W("all"), TRUE, <<" ", "a1", " ", ",", "a2", " ">>,
          SampleCallEnded(W("a1"),
                          Arr(<<Obj([sender |-> W("a"), message |-> W("hi"),
                                     sent_at |-> W("t1")]),
                                Obj([sender |-> W("b"), message |-> W("bye"),
                                     sent_at |-> W("t2")])>>))),
     Item("handleEvent", W("all"), TRUE, <<" ">>, SampleMessage),
     Item("handleEvent", W("all"), FALSE, << >>, Str(<<"{">>)),
     Item("handleEvent", W("all"), FALSE, << >>, Str(MessageEventText)),
     Item("handleEvent", W("all"), FALSE, << >>, Undef),
     Item("handleEvent", W("all"), FALSE, << >>,
          SampleCallEnded(W("a2"), Arr(<<Null>>))),
     Item("handleEvent", W("message"), FALSE, << >>, SamplePing),
     Item("handleEvent", W("all"), FALSE, << >>, SamplePing),
     Item("handleEvent", W("all"), FALSE, << >>, Arr(<< >>)),
     Item("other", W("all"), FALSE, << >>, SampleMessage)}

-----------------------------------------------------------------------------
(* Specifications                                                          *)

NotCalled == Throw(<<"not called">>)

Idle == [fn |-> "none", arg |-> Undef]

ExecInit(itemSet, maxLen) ==
    /\ \E n \in 0..maxLen : items \in [1..n -> itemSet]
    /\ continueOnFail \in BOOLEAN
    /\ i = 0
    /\ returnItems = << >>
    /\ pc = "loop"
    /\ output = << >>
    /\ thrown = << >>
    /\ log = << >>
    /\ call = Idle
    /\ result = NotCalled

\* execute on a batch of up to MaxItems items.
Init == ExecInit(BatchItems, MaxItems)

Spec == Init /\ [][Next]_vars

\* execute on one item, over every configuration and payload.
InitItem == ExecInit(RichItems, 1)

SpecItem == InitItem /\ [][Next]_vars

\* The helpers applied on their own to a payload.
InitHelpers ==
    /\ items = << >>
    /\ continueOnFail = FALSE
    /\ i = 0
    /\ returnItems = << >>
    /\ pc = "idle"
    /\ output = << >>
    /\ thrown = << >>
    /\ log = << >>
    /\ call \in {[fn |-> "none", arg |-> a] : a \in RawPayloads}
    /\ result = NotCalled

\* The event a payload parses to (for a payload that parses).
EventOf(raw) == parseWebhookData(raw).v

\* The record normalization gives for an event.
normalizeEvent(webhookData) == normalize(webhookData, getAgentId(webhookData))

Parses(raw) == parseWebhookData(raw).ok

CallParseWebhookData ==
    /\ call.fn = "none"
    /\ call' = [call EXCEPT !.fn = "parseWebhookData"]
    /\ result' = parseWebhookData(call.arg)
    /\ UNCHANGED execVars

CallGetAgentId ==
    /\ call.fn = "none"
    /\ Parses(call.arg)
    /\ call' = [call EXCEPT !.fn = "getAgentId"]
    /\ result' = Return(getAgentId(EventOf(call.arg)))
    /\ UNCHANGED execVars

CallNormalize ==
    /\ call.fn = "none"
    /\ Parses(call.arg)
    /\ call' = [call EXCEPT !.fn = "normalize"]
    /\ result' = normalizeEvent(EventOf(call.arg))
    /\ UNCHANGED execVars

NextHelpers == CallParseWebhookData \/ CallGetAgentId \/ CallNormalize

SpecHelpers == InitHelpers /\ [][NextHelpers]_vars

-----------------------------------------------------------------------------
(* Properties of execute on a batch (Spec)                                 *)

\* The items run through operation handleEvent.
AllHandleEvent == \A k \in DOMAIN items : items[k].operation = "handleEvent"

\* The positions in returnItems of the records paired with item n.
RecordsOf(n) ==
    {k \in DOMAIN returnItems :
        "pairedItem" \in DOMAIN returnItems[k] /\ returnItems[k].pairedItem = n}

\* The steps logged for item n, in order.
StepsOf(n) ==
    LET own == SelectSeq(log, LAMBDA e : e[1] = n)
    IN  [k \in DOMAIN own |-> own[k][2]]

HasStep(n, step) == \E k \in DOMAIN log : log[k] = <<n, step>>

\* The number of items before item n that left a record in returnItems.
OutputsBefore(n) ==
    Cardinality({m \in 0..(n - 1) : HasStep(m, "push") \/ HasStep(m, "error")})

\* C1: for operation handleEvent, at every point of the loop and in the list
\* returned, every record is paired with an index of the batch, the paired
\* indices are strictly increasing along the list, and an item that has
\* been processed has exactly one record (emitted or errored) or none
\* (filtered out).
C1_OrderAndPairing ==
    AllHandleEvent =>
        /\ \A k \in DOMAIN returnItems :
            /\ "pairedItem" \in DOMAIN returnItems[k]
            /\ returnItems[k].pairedItem \in 0..(Len(items) - 1)
        /\ \A j, k \in DOMAIN returnItems :
            j < k => returnItems[j].pairedItem < returnItems[k].pairedItem
        /\ \A n \in 0..(i - 1) :
            Cardinality(RecordsOf(n)) =
                IF HasStep(n, "push") \/ HasStep(n, "error") THEN 1 ELSE 0
        /\ (pc = "returned" => output = returnItems)

\* A batch of three handleEvent items returned with two records, the
\* second item filtered out.
C1_Witness ==
    /\ AllHandleEvent
    /\ pc = "returned"
    /\ Len(items) = 3
    /\ Len(output) = 2
    /\ output[1].pairedItem = 0
    /\ output[2].pairedItem = 2
    /\ ~HasStep(1, "push") /\ ~HasStep(1, "error")

\* C2: under continueOnFail() no failure aborts the batch: execute never
\* throws, every item whose try block threw (missing or malformed payload,
\* blank agent IDs, a failing normalization) has exactly one record, which
\* is {error: message} paired with its index and stands at its position
\* among the records, and every item of the batch is processed before
\* execute returns.
C2_FailTolerant ==
    continueOnFail =>
        /\ pc # "thrown"
        /\ \A n \in 0..(i - 1) :
            tryItem(items[n + 1]).kind = "throw" =>
                /\ RecordsOf(n) = {OutputsBefore(n) + 1}
                /\ returnItems[OutputsBefore(n) + 1] =
                      [json |-> Obj([error |-> Str(tryItem(items[n + 1]).msg)]),
                       pairedItem |-> n]
        /\ (pc = "returned" =>
                /\ i = Len(items)
                /\ \A n \in 0..(Len(items) - 1) : HasStep(n, "params")
                                                   \/ HasStep(n, "push"))

\* A returned batch whose second item failed, after a record for the first
\* item and before a record for the third.
C2_Witness ==
    /\ continueOnFail
    /\ pc = "returned"
    /\ Len(items) = 3
    /\ Len(output) = 3
    /\ tryItem(items[2]).kind = "throw"
    /\ "error" \in DOMAIN output[2].json.o
    /\ output[2].pairedItem = 1
    /\ HasStep(0, "push") /\ HasStep(2, "push")

\* C3: without continueOnFail() the first item whose try block throws ends
\* execute: the error thrown is that item's, no list is returned, nothing
\* runs afterwards, and no step of a later item was taken; and a batch is
\* returned only if no item of it failed.
C3_FailFast ==
    ~continueOnFail =>
        /\ (pc = "thrown" =>
                /\ i < Len(items)
                /\ tryItem(items[i + 1]).kind = "throw"
                /\ thrown = tryItem(items[i + 1]).msg
                /\ \A n \in 0..(i - 1) : tryItem(items[n + 1]).kind # "throw"
                /\ output = << >>
                /\ \A k \in DOMAIN log : log[k][1] <= i
                /\ ~ENABLED Next)
        /\ (pc # "thrown" =>
                \A n \in 0..(i - 1) : tryItem(items[n + 1]).kind # "throw")

\* The second of three items failed after a record had been built for the
\* first: the record is dropped and the third item is never looked at.
C3_Witness ==
    /\ ~continueOnFail
    /\ pc = "thrown"
    /\ Len(items) = 3
    /\ i = 1
    /\ Len(returnItems) = 1
    /\ output = << >>
    /\ ~HasStep(2, "params")

-----------------------------------------------------------------------------
(* Properties of the helpers applied to a payload (SpecHelpers)            *)

\* The value under key k of the object e, Absent without it (and for an e
\* that is no object).
Field(e, k) ==
    IF e.t = "object" /\ k \in DOMAIN e.o THEN e.o[k] ELSE Absent

NonEmptyString(v) == v.t = "string" /\ v.s # << >>

IsRecord(v) == v.t = "object"

\* The event the helper was applied to.
CalledEvent == EventOf(call.arg)

\* C4 (as claimed): normalization of an event that passed parsing and is an
\* object returns a record, whatever its fields hold.
C4_NormalizeNeverFails ==
    (call.fn = "normalize" /\ IsRecord(CalledEvent)) => result.ok

\* call_data.agentId of the event, where the claim looks for the agent ID.
CallDataAgentId(e) == Field(Field(e, "call_data"), "agentId")

Decodes(s) == JSONparse(s).ok

\* Whether msg holds the message part, in order and unbroken.
Contains(msg, part) ==
    \E k \in 0..(Len(msg) - Len(part)) : SubSeq(msg, k + 1, k + Len(part)) = part

\* C9 (as claimed): parseWebhookData returns only non-null objects that are
\* no list; a text that does not decode fails with a message holding the
\* parse error's message; and an input that is, or decodes to, null, a
\* number, a boolean, a string or a list fails.
C9_ParseReturnsOnlyObjects ==
    call.fn = "parseWebhookData" =>
        /\ (result.ok => IsRecord(result.v))
        /\ (call.arg.t = "string" /\ ~Decodes(call.arg.s) =>
                /\ ~result.ok
                /\ Contains(result.msg, JSONparse(call.arg.s).msg))
        /\ (call.arg.t # "string" /\ ~IsRecord(call.arg) => ~result.ok)
        /\ (call.arg.t = "string" /\ Decodes(call.arg.s)
                /\ ~IsRecord(JSONparse(call.arg.s).v) => ~result.ok)

\* Whether the event has no evaluation object.
LacksEvaluation(e) == ~IsRecord(Field(e, "evaluation"))

IsCallEnded(e) == Field(e, "event_type") = W("call_ended")

\* The record normalization returned, field by field.
Out(k) == result.v.o[k]

CallDetails(k) == Out("call_details").o[k]

CallSummary(k) == Out("call_summary").o[k]

\* The call-ended events without evaluation that were normalized to a record.
NormalizedWithoutEvaluation ==
    /\ call.fn = "normalize"
    /\ IsCallEnded(CalledEvent)
    /\ LacksEvaluation(CalledEvent)
    /\ result.ok

\* C10 (as claimed): the record of a call-ended event without evaluation has
\* topic "Unknown", user_sentiment "Unknown", duration_minutes 0 and
\* message_count 0, whatever its messages list holds.
C10_DefaultsWithZeroCount ==
    NormalizedWithoutEvaluation =>
        /\ CallDetails("topic") = W("Unknown")
        /\ CallDetails("user_sentiment") = W("Unknown")
        /\ CallDetails("duration_minutes") = Num(0)
        /\ CallDetails("message_count") = Num(0)

\* The number of elements of the messages list of the event, 0 without one.
MessagesLength(e) ==
    IF Field(e, "messages").t = "array" THEN Len(Field(e, "messages").a) ELSE 0

\* C10 (amended): the record of a call-ended event without evaluation has
\* topic "Unknown", user_sentiment "Unknown", duration_minutes 0, and a
\* message_count equal to the number of elements of its messages list (0
\* when the list is absent or empty).
C10_DefaultsWithMessagesLength ==
    NormalizedWithoutEvaluation =>
        /\ CallDetails("topic") = W("Unknown")
        /\ CallDetails("user_sentiment") = W("Unknown")
        /\ CallDetails("duration_minutes") = Num(0)
        /\ CallDetails("message_count") = Num(MessagesLength(CalledEvent))

\* A call-ended event without evaluation and with two messages, normalized
\* to a record that counts two messages.
C10_Witness ==
    /\ NormalizedWithoutEvaluation
    /\ MessagesLength(CalledEvent) = 2
    /\ CallDetails("message_count") = Num(2)
    /\ CallDetails("duration_minutes") = Num(0)
    /\ CallDetails("topic") = W("Unknown")

-----------------------------------------------------------------------------
(* Properties of execute on one item (SpecItem)                            *)

\* The one item of the batch has been through the loop body.
OneProcessed ==
    /\ Len(items) = 1
    /\ items[1].operation = "handleEvent"
    /\ (i = 1 \/ pc = "thrown")

\* The event the payload of the item parsed to.
ItemEvent == EventOf(items[1].webhookData)

\* The agent IDs the agentIds string lists: its pieces between commas,
\* trimmed.
AllowList(agentIdsString) ==
    {Trim(Split(agentIdsString)[k]) : k \in DOMAIN Split(agentIdsString)}

\* Whether v is a non-empty agent ID of the allow-list of the item.
Allowed(v) == NonEmptyString(v) /\ v.s \in AllowList(items[1].agentIds)

\* The item got to the agent-ID filter with filtering enabled: its payload
\* parsed and its event passed the event-type filter.
ReachedAgentIdFilter ==
    /\ OneProcessed
    /\ items[1].filterByAgentIds
    /\ HasStep(0, "agentIdFilter")

\* The item ended at the agent-ID filter: no output and no error.
SkippedAtAgentIdFilter ==
    /\ StepsOf(0) = <<"params", "parse", "eventTypeFilter", "agentIdFilter">>
    /\ returnItems = << >>
    /\ pc # "thrown"

ResolvedAgentId(e) ==
    IF NonEmptyString(CallDataAgentId(e)) THEN CallDataAgentId(e)
    ELSE Field(e, "agentId")

OnlyBlanks(s) == \A k \in DOMAIN s : s[k] = Blank

\* C7: with filterByAgentIds on and an agentIds string that is empty or
\* holds only blanks, the item fails with the message "Agent IDs required
\* when filtering is enabled", whatever its payload: under continueOnFail()
\* its one record is that error, otherwise execute throws it; the item is
\* never skipped.
C7_BlankAgentIdsFail ==
    (OneProcessed /\ items[1].filterByAgentIds /\ OnlyBlanks(items[1].agentIds)) =>
        IF continueOnFail
        THEN /\ pc # "thrown"
             /\ returnItems =
                  <<[json |-> Obj([error |->
                        Str(<<"Agent IDs required when filtering is enabled">>)]),
                     pairedItem |-> 0]>>
        ELSE /\ pc = "thrown"
             /\ thrown = <<"Agent IDs required when filtering is enabled">>
             /\ output = << >>

\* An item with a blank agentIds string and a payload that does not decode
\* left the filter-configuration error.
C7_Witness ==
    /\ OneProcessed
    /\ items[1].filterByAgentIds
    /\ items[1].agentIds = <<" ">>
    /\ items[1].webhookData = Str(<<"{">>)
    /\ continueOnFail
    /\ pc = "returned"
    /\ output[1].json.o["error"] =
          Str(<<"Agent IDs required when filtering is enabled">>)

\* The item got to the event-type filter: its parameters were accepted and
\* its payload parsed.
ReachedEventTypeFilter == OneProcessed /\ HasStep(0, "eventTypeFilter")

\* C8: with an eventType other than "all", an event whose event_type is
\* another value, or is absent, is skipped with no output, and an event of
\* that type is not skipped by the event-type filter; with eventType "all"
\* no event is skipped by it.
C8_EventTypeFilter ==
    ReachedEventTypeFilter =>
        IF items[1].eventType # W("all")
           /\ Field(ItemEvent, "event_type") # items[1].eventType
        THEN /\ StepsOf(0) = <<"params", "parse", "eventTypeFilter">>
             /\ returnItems = << >>
             /\ pc # "thrown"
        ELSE HasStep(0, "agentIdFilter")

\* With eventType "message", an event without event_type was skipped.
C8_Witness ==
    /\ ReachedEventTypeFilter
    /\ items[1].eventType = W("message")
    /\ Field(ItemEvent, "event_type") = Absent
    /\ IsRecord(ItemEvent)
    /\ pc = "returned"
    /\ output = << >>

-----------------------------------------------------------------------------
(* parseDurationMinutes and parseMessageCount applied to a value           *)
(* (SpecCoerce)                                                            *)

\* Values of evaluation.duration_minutes and evaluation.messages_count: a
\* number, a text, null, or nothing.
CountValues ==
    {Undef, Null, Num(0), Num(7),
     Str(<<"1", "5">>), Str(<<"0">>), Str(<<"-", "3">>),
     Str(<<"a", "b", "c">>), EmptyStr, Str(<<"0", "x", "1", "F">>),
     Str(<<" ", "4", "2">>), Str(<<"1", "2", "p", "x">>)}

\* Values of the messages argument of parseMessageCount.
CountMessagesValues ==
    {Arr(a) : a \in SeqsUpTo(MessageElements, MaxMessages)} \cup {Undef, Null}

InitCoerce ==
    /\ items = << >>
    /\ continueOnFail = FALSE
    /\ i = 0
    /\ returnItems = << >>
    /\ pc = "idle"
    /\ output = << >>
    /\ thrown = << >>
    /\ log = << >>
    /\ call \in {[fn |-> "none", arg |-> [value |-> v, messages |-> m]] :
                    v \in CountValues, m \in CountMessagesValues}
    /\ result = NotCalled

CallParseDurationMinutes ==
    /\ call.fn = "none"
    /\ call' = [call EXCEPT !.fn = "parseDurationMinutes"]
    /\ result' = Return(parseDurationMinutes(call.arg.value))
    /\ UNCHANGED execVars

CallParseMessageCount ==
    /\ call.fn = "none"
    /\ call' = [call EXCEPT !.fn = "parseMessageCount"]
    /\ result' = Return(parseMessageCount(call.arg.value, call.arg.messages))
    /\ UNCHANGED execVars

NextCoerce == CallParseDurationMinutes \/ CallParseMessageCount

SpecCoerce == InitCoerce /\ [][NextCoerce]_vars

\* The length of the messages argument, 0 without a list.
LengthOrZero(messages) ==
    IF messages.t = "array" THEN Num(Len(messages.a)) ELSE Num(0)

\* C11 (as claimed): parseMessageCount returns a number as it is, the
\* number 0 included whatever messages holds, coerces a text as
\* parseDurationMinutes does, and falls back to the length of messages (0
\* without one) only for an absent value.
C11_CountAsIsOrFallback ==
    call.fn = "parseMessageCount" =>
        result.v = IF call.arg.value.t = "number" THEN call.arg.value
                   ELSE IF call.arg.value.t = "string"
                   THEN parseDurationMinutes(call.arg.value)
                   ELSE LengthOrZero(call.arg.messages)

\* Whether the text is a decimal numeral: digits, after an optional minus.
AllDigits(s) == s # << >> /\ \A k \in DOMAIN s : s[k] \in Digits

DecimalNumeral(s) ==
    AllDigits(s) \/ (s # << >> /\ Head(s) = "-" /\ AllDigits(Tail(s)))

\* The integer a decimal numeral writes.
RECURSIVE DigitsValue(_)
DigitsValue(s) ==
    IF s = << >> THEN 0
    ELSE 10 * DigitsValue(SubSeq(s, 1, Len(s) - 1)) + DigitValue(s[Len(s)])

DecimalValue(s) ==
    IF Head(s) = "-" THEN 0 - DigitsValue(Tail(s)) ELSE DigitsValue(s)

\* C12 (as claimed): parseDurationMinutes returns 0 for an absent value, a
\* number unchanged, the integer a decimal numeral writes ("15" gives 15),
\* and NaN for every text that is no decimal numeral ("abc", "", "0x1F").
C12_Base10OrNaN ==
    call.fn = "parseDurationMinutes" =>
        result.v = IF Nullish(call.arg.value) THEN Num(0)
                   ELSE IF call.arg.value.t = "number" THEN call.arg.value
                   ELSE IF DecimalNumeral(call.arg.value.s)
                   THEN Num(DecimalValue(call.arg.value.s))
                   ELSE NaN

-----------------------------------------------------------------------------
(* Properties of the normalized records (SpecHelpers)                      *)

\* The call-ended events that were normalized to a record.
NormalizedCallEnded ==
    /\ call.fn = "normalize"
    /\ IsCallEnded(CalledEvent)
    /\ result.ok

\* The messages of the event normalized, Absent without any.
InputMessages == Field(CalledEvent, "messages")

\* Whether the event normalized has a messages list with an element.
NonEmptyMessages ==
    InputMessages.t = "array" /\ InputMessages.a # << >>

\* The value under key k of the element m, undefined without it.
ElementField(m, k) == IF Field(m, k) = Absent THEN Undef ELSE Field(m, k)

\* The value v of a field, or d for an absent field.
OrWhenAbsent(v, d) == IF v = Absent THEN d ELSE v

\* C13: in the record of a call-ended event with a non-empty messages list,
\* call_summary.first_message is the message field of the first element and
\* call_summary.last_message that of the last element; with an empty or
\* absent list both are the empty string.
C13_FirstAndLastMessage ==
    NormalizedCallEnded =>
        IF NonEmptyMessages
        THEN /\ CallSummary("first_message") =
                    ElementField(InputMessages.a[1], "message")
             /\ CallSummary("last_message") =
                    ElementField(InputMessages.a[Len(InputMessages.a)], "message")
        ELSE /\ CallSummary("first_message") = EmptyStr
             /\ CallSummary("last_message") = EmptyStr

\* A call-ended event with the messages "hi", "bye" got first_message "hi"
\* and last_message "bye".
C13_Witness ==
    /\ NormalizedCallEnded
    /\ NonEmptyMessages
    /\ Len(InputMessages.a) = 2
    /\ Field(InputMessages.a[1], "message") = W("hi")
    /\ Field(InputMessages.a[2], "message") = W("bye")
    /\ CallSummary("first_message") = W("hi")
    /\ CallSummary("last_message") = W("bye")

IsMessageEvent(e) == Field(e, "event_type") = W("message")

\* C14: the record of a message event has exactly the keys call_id,
\* agent_id, user, message and event_type, user exactly name, message
\* exactly sender, content and timestamp; call_id, sender, content (from
\* message.message) and timestamp (from message.sent_at) are the payload's
\* values or "" when absent, user.name is call_data.userName or "Unknown"
\* when absent, and event_type is "message".
C14_MessageRecord ==
    (call.fn = "normalize" /\ IsMessageEvent(CalledEvent)) =>
        /\ result.ok
        /\ DOMAIN result.v.o =
              {"call_id", "agent_id", "user", "message", "event_type"}
        /\ Out("call_id") = OrWhenAbsent(Field(CalledEvent, "call_id"), EmptyStr)
        /\ Out("user") =
              Obj([name |-> OrWhenAbsent(
                      Field(Field(CalledEvent, "call_data"), "userName"),
                      W("Unknown"))])
        /\ Out("message") =
              Obj([sender |-> OrWhenAbsent(
                      Field(Field(CalledEvent, "message"), "sender"), EmptyStr),
                   content |-> OrWhenAbsent(
                      Field(Field(CalledEvent, "message"), "message"), EmptyStr),
                   timestamp |-> OrWhenAbsent(
                      Field(Field(CalledEvent, "message"), "sent_at"), EmptyStr)])
        /\ Out("event_type") = W("message")

\* A message event without call_id and call_data.userName, with a message,
\* got the record with the defaults and the message's fields.
C14_Witness ==
    /\ call.fn = "normalize"
    /\ IsMessageEvent(CalledEvent)
    /\ Field(CalledEvent, "call_id") = Absent
    /\ Field(CalledEvent, "call_data") = Obj([agentId |-> W("a3")])
    /\ Field(Field(CalledEvent, "message"), "message") = W("hi")
    /\ result.ok
    /\ Out("call_id") = EmptyStr
    /\ Out("user") = Obj([name |-> W("Unknown")])
    /\ Out("message").o["content"] = W("hi")
    /\ Out("message").o["timestamp"] = W("t0")

\* The agent ID of the event, "" without one.
AgentIdOrEmpty(e) ==
    IF NonEmptyString(ResolvedAgentId(e)) THEN ResolvedAgentId(e) ELSE EmptyStr

\* C15: for an event whose event_type is neither "call_ended" nor "message"
\* (or is absent) normalization gives exactly the record of event_type (the
\* payload's, or "unknown" when absent), call_id (the payload's, or "" when
\* absent) and agent_id (the agent ID of the event).
C15_MinimalRecord ==
    (/\ call.fn = "normalize"
     /\ IsRecord(CalledEvent)
     /\ ~IsCallEnded(CalledEvent)
     /\ ~IsMessageEvent(CalledEvent)) =>
        result = Return(Obj(
            [event_type |->
                OrWhenAbsent(Field(CalledEvent, "event_type"), W("unknown")),
             call_id |-> OrWhenAbsent(Field(CalledEvent, "call_id"), EmptyStr),
             agent_id |-> AgentIdOrEmpty(CalledEvent)]))

\* The event {event_type: "ping"} gave {event_type: "ping", call_id: "",
\* agent_id: ""}.
C15_Witness ==
    /\ call.fn = "normalize"
    /\ CalledEvent = Obj([event_type |-> W("ping")])
    /\ result = Return(Obj([event_type |-> W("ping"), call_id |-> EmptyStr,
                            agent_id |-> EmptyStr]))

\* C16: in the record of a call-ended event, user.name is user_name when
\* present, otherwise call_data.userName when present, otherwise "Unknown";
\* topic and user_sentiment are the evaluation's when present and "Unknown"
\* when absent.
C16_UserNameTopicSentiment ==
    NormalizedCallEnded =>
        /\ Out("user") =
              Obj([name |-> OrWhenAbsent(
                      Field(CalledEvent, "user_name"),
                      OrWhenAbsent(
                          Field(Field(CalledEvent, "call_data"), "userName"),
                          W("Unknown")))])
        /\ CallDetails("topic") =
              OrWhenAbsent(Field(Field(CalledEvent, "evaluation"), "topic"),
                           W("Unknown"))
        /\ CallDetails("user_sentiment") =
              OrWhenAbsent(
                  Field(Field(CalledEvent, "evaluation"), "user_sentiment"),
                  W("Unknown"))
        /\ CallSummary("user_sentiment") = CallDetails("user_sentiment")

\* A call-ended event with user_name "Bob", call_data.userName "Ann" and an
\* evaluation without topic got user.name "Bob" and topic "Unknown".
C16_Witness ==
    /\ NormalizedCallEnded
    /\ Field(CalledEvent, "user_name") = W("Bob")
    /\ Field(Field(CalledEvent, "call_data"), "userName") = W("Ann")
    /\ IsRecord(Field(CalledEvent, "evaluation"))
    /\ Field(Field(CalledEvent, "evaluation"), "topic") = Absent
    /\ Out("user") = Obj([name |-> W("Bob")])
    /\ CallDetails("topic") = W("Unknown")

\* The element of the output list for the input element m.
OutputMessage(m) ==
    Obj([sender |-> OrWhenAbsent(Field(m, "sender"), EmptyStr),
         message |-> OrWhenAbsent(Field(m, "message"), EmptyStr),
         timestamp |-> OrWhenAbsent(Field(m, "sent_at"), EmptyStr)])

\* C17: in the record of a call-ended event, messages has the length and
\* order of the input list (it is empty without an input list), and its
\* element k holds sender, message and timestamp from the sender, message
\* and sent_at of input element k, each "" when missing.
C17_MessagesInOrder ==
    NormalizedCallEnded =>
        /\ Out("messages").t = "array"
        /\ IF InputMessages.t = "array"
           THEN /\ Len(Out("messages").a) = Len(InputMessages.a)
                /\ \A k \in DOMAIN InputMessages.a :
                      Out("messages").a[k] = OutputMessage(InputMessages.a[k])
           ELSE Out("messages").a = << >>

\* A list of two different messages, the second without message and sent_at,
\* came out in order with "" for the missing fields.
C17_Witness ==
    /\ NormalizedCallEnded
    /\ InputMessages =
          Arr(<<Obj([sender |-> W("user"), message |-> W("hi"),
                     sent_at |-> W("t1")]),
                Obj([sender |-> W("agent")])>>)
    /\ Out("messages") =
          Arr(<<Obj([sender |-> W("user"), message |-> W("hi"),
                     timestamp |-> W("t1")]),
                Obj([sender |-> W("agent"), message |-> EmptyStr,
                     timestamp |-> EmptyStr])>>)

\* C18: in every record of a call-ended event, call_details and
\* call_summary have the same duration_minutes, the same message_count and
\* the same user_sentiment.
C18_DetailsAndSummaryAgree ==
    NormalizedCallEnded =>
        /\ CallDetails("duration_minutes") = CallSummary("duration_minutes")
        /\ CallDetails("message_count") = CallSummary("message_count")
        /\ CallDetails("user_sentiment") = CallSummary("user_sentiment")

\* A call-ended event with duration "12", count 2 and no messages list got
\* 12 and 2 in both; its sentiment is in both.
C18_Witness ==
    /\ NormalizedCallEnded
    /\ Field(Field(CalledEvent, "evaluation"), "duration_minutes") =
          Str(<<"1", "2">>)
    /\ CallDetails("duration_minutes") = Num(12)
    /\ CallSummary("duration_minutes") = Num(12)
    /\ CallDetails("message_count") = Num(2)
    /\ CallSummary("message_count") = Num(2)
    /\ CallSummary("user_sentiment") = W("positive")

-----------------------------------------------------------------------------
(* The payload given as JSON text (SpecRoundTrip): the webhookData         *)
(* parameter holds the text JSON.stringify writes for the body of the      *)
(* item.                                                                   *)

DigitChar(d) == CHOOSE c \in Digits : DigitValue(c) = d

\* The decimal digits of the natural number n.
RECURSIVE DigitsOf(_)
DigitsOf(n) ==
    IF n < 10 THEN <<DigitChar(n)>>
    ELSE Append(DigitsOf(n \div 10), DigitChar(n % 10))

\* The keys JSON.stringify writes: those whose value is not undefined.
WrittenKeys(o) == {k \in DOMAIN o : o[k].t # "undefined"}

RECURSIVE Stringify(_)
RECURSIVE StringifyElements(_)
RECURSIVE StringifyMembers(_, _)
RECURSIVE StringifyFrom(_, _, _)

\* JSON.stringify(v) for a v that is not undefined: NaN is written null.
Stringify(v) ==
    CASE v.t \in {"null", "undefined"} -> <<"null">>
      [] v.t = "boolean" -> IF v.b THEN <<"true">> ELSE <<"false">>
      [] v.t = "number" ->
           IF IsNaN(v) THEN <<"null">>
           ELSE IF v.n < 0 THEN <<"-">> \o DigitsOf(0 - v.n)
           ELSE DigitsOf(v.n)
      [] v.t = "string" -> <<Quote>> \o v.s \o <<Quote>>
      [] v.t = "array" -> <<"[">> \o StringifyElements(v.a) \o <<"]">>
      [] v.t = "object" ->
           <<"{">> \o StringifyMembers(v.o, WrittenKeys(v.o)) \o <<"}">>

\* The elements of a list, with commas between them.
StringifyElements(a) ==
    IF a = << >> THEN << >>
    ELSE IF Len(a) = 1 THEN Stringify(a[1])
    ELSE Stringify(a[1]) \o <<",">> \o StringifyElements(Tail(a))

\* The members of o under the keys given, with commas between them.
StringifyMembers(o, keys) ==
    IF keys = {} THEN << >>
    ELSE StringifyFrom(o, keys, CHOOSE k \in keys : TRUE)

\* The member of key k, then the members of the other keys.
StringifyFrom(o, keys, k) ==
    <<Quote, k, Quote, ":">> \o Stringify(o[k])
        \o (IF keys = {k} THEN << >>
            ELSE <<",">> \o StringifyMembers(o, keys \ {k}))

\* The item whose webhookData is the JSON text of its body.
TextItem(item) ==
    [item EXCEPT !.webhookData = Str(Stringify(item.json.o["body"]))]

\* Every configuration with the text of every event, one item at a time.
TextItems ==
    {TextItem(item) : item \in {r \in RichItems : r.webhookData \in ItemEvents}}

InitRoundTrip == ExecInit(TextItems, 1)

SpecRoundTrip == InitRoundTrip /\ [][Next]_vars

\* The item of the batch with the event itself as its webhookData.
ObjectItem == [items[1] EXCEPT !.webhookData = items[1].json.o["body"]]

\* The state is the one the loop body leaves for an item that ended as r.
LeftBy(r) ==
    /\ returnItems =
          IF r.kind = "emit" THEN <<[json |-> r.json, pairedItem |-> 0]>>
          ELSE IF r.kind = "throw" /\ continueOnFail
          THEN <<[json |-> Obj([error |-> Str(r.msg)]), pairedItem |-> 0]>>
          ELSE << >>
    /\ pc = "thrown" <=> (r.kind = "throw" /\ ~continueOnFail)
    /\ pc = "thrown" => thrown = r.msg
    /\ SubSeq(StepsOf(0), 1, Len(r.steps)) = r.steps

\* C19: for an item whose webhookData is the JSON text of an event, the
\* text parses to that event, and the item ends as the item with the event
\* itself as webhookData ends: the same record, the same skip by the same
\* filter, or the same error.
C19_RoundTrip ==
    OneProcessed =>
        /\ items[1].webhookData.t = "string"
        /\ parseWebhookData(items[1].webhookData) =
              Return(items[1].json.o["body"])
        /\ LeftBy(tryItem(ObjectItem))

\* The text of a call-ended event with an evaluation and a message was
\* normalized to the record of the event, with duration 12.
C19_Witness ==
    /\ OneProcessed
    /\ items[1].webhookData.t = "string"
    /\ IsCallEnded(items[1].json.o["body"])
    /\ IsRecord(Field(items[1].json.o["body"], "evaluation"))
    /\ Field(items[1].json.o["body"], "messages").t = "array"
    /\ pc = "returned"
    /\ Len(output) = 1
    /\ "call_details" \in DOMAIN output[1].json.o
    /\ output[1].json.o["call_details"].o["duration_minutes"] = Num(12)
    /\ output[1].json.o["messages"] =
          Arr(<<Obj([sender |-> W("agent"), message |-> EmptyStr,
                     timestamp |-> EmptyStr])>>)

-----------------------------------------------------------------------------
(* The two filters together (SpecItem)                                     *)

\* The event of the item passes the event-type filter, taken on its own.
PassesEventType ==
    \/ items[1].eventType = W("all")
    \/ Field(ItemEvent, "event_type") = items[1].eventType

\* The event of the item passes the agent-ID filter, taken on its own.
PassesAgentId ==
    \/ ~items[1].filterByAgentIds
    \/ Allowed(ResolvedAgentId(ItemEvent))

\* The decision of the two filters applied one after the other.
Decision(first, second) ==
    IF ~first THEN "skip" ELSE IF ~second THEN "skip" ELSE "emit"

\* C20: an event that reached the filters goes on to normalization exactly
\* when it passes both the event-type filter and the agent-ID filter, each
\* taken on its own, and is skipped with no output and no error otherwise:
\* the decision is the one of kind-then-agent and of agent-then-kind.
C20_FilterOrderIrrelevant ==
    ReachedEventTypeFilter =>
        /\ HasStep(0, "normalize") <=> (PassesEventType /\ PassesAgentId)
        /\ ~HasStep(0, "normalize") => (returnItems = << >> /\ pc # "thrown")
        /\ Decision(PassesEventType, PassesAgentId) =
              IF HasStep(0, "normalize") THEN "emit" ELSE "skip"
        /\ Decision(PassesAgentId, PassesEventType) =
              IF HasStep(0, "normalize") THEN "emit" ELSE "skip"

\* A call-ended event of agent "a3", with eventType "message" and the
\* allow-list "a1,a2", fails both filters and was skipped.
C20_Witness ==
    /\ ReachedEventTypeFilter
    /\ items[1].eventType = W("message")
    /\ items[1].filterByAgentIds
    /\ items[1].agentIds = <<"a1", ",", "a2">>
    /\ IsCallEnded(ItemEvent)
    /\ CallDataAgentId(ItemEvent) = W("a3")
    /\ ~PassesEventType
    /\ ~PassesAgentId
    /\ pc = "returned"
    /\ output = << >>

-----------------------------------------------------------------------------
(* The order of the steps of an item (SpecItem)                            *)

\* The message of the error the item ended in, << >> without an error.
ItemError ==
    IF pc = "thrown" THEN thrown
    ELSE IF returnItems # << >> /\ "error" \in DOMAIN returnItems[1].json.o
    THEN returnItems[1].json.o["error"].s
    ELSE << >>

FilterConfigMessage == <<"Agent IDs required when filtering is enabled">>

\* Whether msg is the message of an error about the payload: it could not
\* be decoded, is no object, or is missing.
IsPayloadError(msg) ==
    \/ msg = <<"Missing webhook data">>
    \/ (msg # << >> /\ Head(msg) = "Invalid webhook data: ")

\* The steps of the item before its error, if any.
StepsBeforeError ==
    SelectSeq(StepsOf(0), LAMBDA st : st \notin {"error", "throw"})

AllSteps ==
    <<"params", "parse", "eventTypeFilter", "agentIdFilter", "normalize", "push">>

\* The steps taken are the first ones of parse, event-type filter,
\* agent-ID filter, normalize, push, in that order.
StepsInOrder ==
    StepsBeforeError = SubSeq(AllSteps, 1, Len(StepsBeforeError))

\* C21 (as claimed): the steps of an item are in the order parse, filters,
\* normalize; a filter error is never produced before the payload was
\* parsed, and an item whose payload does not parse always ends in a payload
\* error.
C21_ParseBeforeFilterErrors ==
    OneProcessed =>
        /\ StepsInOrder
        /\ ItemError = FilterConfigMessage => HasStep(0, "parse")
        /\ ~Parses(items[1].webhookData) => IsPayloadError(ItemError)

\* C21 (amended): the agentIds string is checked first, before the payload
\* is read: with filtering on and a blank string the item ends in the
\* filter-configuration error with no parse step, whatever its payload.
\* Otherwise the steps are in the order parse, event-type filter, agent-ID
\* filter, normalize; no skip is decided before the payload parsed, and an
\* item whose payload does not parse ends in a payload error.
C21_ConfigCheckThenParseThenFilters ==
    OneProcessed =>
        /\ StepsInOrder
        /\ IF items[1].filterByAgentIds /\ OnlyBlanks(items[1].agentIds)
           THEN /\ ItemError = FilterConfigMessage
                /\ ~HasStep(0, "parse")
           ELSE /\ ItemError # FilterConfigMessage
                /\ HasStep(0, "eventTypeFilter") =>
                      Parses(items[1].webhookData)
                /\ ~Parses(items[1].webhookData) =>
                      /\ IsPayloadError(ItemError)
                      /\ ~HasStep(0, "eventTypeFilter")

\* With filtering off, a text that does not decode ended in the payload
\* error after the parse step, with no filter step.
C21_Witness ==
    /\ OneProcessed
    /\ ~items[1].filterByAgentIds
    /\ items[1].webhookData = Str(<<"oops">>)
    /\ continueOnFail
    /\ StepsOf(0) = <<"params", "parse", "error">>
    /\ IsPayloadError(ItemError)
    /\ Contains(ItemError, <<"Unexpected token ", "oops", " in JSON">>)

-----------------------------------------------------------------------------
(* Payloads whose fields hold other JSON types than the declared ones      *)
(* (SpecMistyped)                                                          *)

\* Values of a field declared a number or a numeric text.
MistypedNumbers == {Absent, Num(7), Str(<<"1", "2">>), Bool(TRUE), EmptyObj}

\* Values of a field declared a string.
MistypedStrings == {Absent, W("x"), Num(5), Bool(TRUE), Arr(<< >>)}

\* Call-ended events with fields of those types.
MistypedEvents ==
    {MkObj([event_type |-> W("call_ended"), call_id |-> c,
            user_name |-> un,
            evaluation |-> MkObj([duration_minutes |-> d, messages_count |-> d,
                                  topic |-> t, user_sentiment |-> t]),
            messages |-> Arr(<<MkObj([sender |-> sd, message |-> W("hi")])>>)]) :
        c \in MistypedStrings, un \in MistypedStrings, d \in MistypedNumbers,
        t \in MistypedStrings, sd \in MistypedStrings}

InitMistyped ==
    /\ items = << >>
    /\ continueOnFail = FALSE
    /\ i = 0
    /\ returnItems = << >>
    /\ pc = "idle"
    /\ output = << >>
    /\ thrown = << >>
    /\ log = << >>
    /\ call \in {[fn |-> "none", arg |-> a] : a \in MistypedEvents}
    /\ result = NotCalled

SpecMistyped == InitMistyped /\ [][NextHelpers]_vars

IsNumber(v) == v.t = "number"

IsString(v) == v.t = "string"

\* C22 (as claimed): in every record of a call-ended event,
\* duration_minutes and message_count are numbers and call_id, agent_id,
\* topic, user_sentiment, user.name, first_message, last_message and the
\* sender, message and timestamp of each message are strings, whatever the
\* types of the payload's fields.
C22_RecordsFullyTyped ==
    NormalizedCallEnded =>
        /\ IsNumber(CallDetails("duration_minutes"))
        /\ IsNumber(CallDetails("message_count"))
        /\ IsNumber(CallSummary("duration_minutes"))
        /\ IsNumber(CallSummary("message_count"))
        /\ IsString(Out("call_id"))
        /\ IsString(Out("agent_id"))
        /\ IsString(CallDetails("topic"))
        /\ IsString(CallDetails("user_sentiment"))
        /\ IsString(CallSummary("user_sentiment"))
        /\ IsString(Out("user").o["name"])
        /\ IsString(CallSummary("first_message"))
        /\ IsString(CallSummary("last_message"))
        /\ \A k \in DOMAIN Out("messages").a :
              /\ IsString(Out("messages").a[k].o["sender"])
              /\ IsString(Out("messages").a[k].o["message"])
              /\ IsString(Out("messages").a[k].o["timestamp"])

\* C29 (as claimed): in every record of a call-ended event with a non-empty
\* messages list, call_summary.first_message is the message of the first
\* element of the record's messages and call_summary.last_message that of
\* its last element, also when the input element has no message field.
C29_SummaryMatchesList ==
    (NormalizedCallEnded /\ NonEmptyMessages) =>
        /\ CallSummary("first_message") = Out("messages").a[1].o["message"]
        /\ CallSummary("last_message") =
              Out("messages").a[Len(Out("messages").a)].o["message"]

-----------------------------------------------------------------------------
(* Items of a batch do not affect each other (Spec)                        *)

\* What is left of the records of item n when the index of the item is
\* taken away: their json.
PairedWith(n) ==
    SelectSeq(returnItems,
              LAMBDA r : "pairedItem" \in DOMAIN r /\ r.pairedItem = n)

JsonsOf(n) == [k \in DOMAIN PairedWith(n) |-> PairedWith(n)[k].json]

\* The json of the records an item ending as r leaves under continueOnFail().
JsonsLeftBy(item, r) ==
    IF r.kind = "emit" THEN <<r.json>>
    ELSE IF r.kind = "throw" THEN <<Obj([error |-> Str(r.msg)])>>
    ELSE << >>

\* C23: under continueOnFail(), what an item of operation handleEvent
\* leaves (its record, its error record, or nothing, and the steps it
\* took) is what the item leaves when processed on its own, whatever its
\* position and its neighbours; so equal items at two positions of a batch
\* leave the same record apart from pairedItem.
C23_NoCrossItemState ==
    (continueOnFail /\ AllHandleEvent) =>
        /\ \A n \in 0..(i - 1) :
              JsonsOf(n) = JsonsLeftBy(items[n + 1], tryItem(items[n + 1]))
        /\ \A n, m \in 0..(i - 1) :
              items[n + 1] = items[m + 1] =>
                  (JsonsOf(n) = JsonsOf(m) /\ StepsOf(n) = StepsOf(m))

\* A batch with the same message event first and last, around another
\* item, was processed: both got the same record.
C23_Witness ==
    /\ continueOnFail
    /\ AllHandleEvent
    /\ Len(items) = 3
    /\ pc = "returned"
    /\ items[1] = items[3]
    /\ items[1] # items[2]
    /\ items[1].webhookData = SampleMessage
    /\ items[1].eventType = W("all")
    /\ Len(JsonsOf(0)) = 1
    /\ JsonsOf(0) = JsonsOf(2)
    /\ JsonsOf(0)[1].o["event_type"] = W("message")

-----------------------------------------------------------------------------
(* formatResponse and execute with resource = agent, operation = create,   *)
(* on one item (SpecAgent)                                                 *)

\* `${v}` for the values an id can be here.
TemplateText(v) ==
    CASE v.t = "string" -> v.s
      [] v.t = "number" /\ ~IsNaN(v) ->
           IF v.n < 0 THEN <<"-">> \o DigitsOf(0 - v.n) ELSE DigitsOf(v.n)
      [] v.t = "null" -> <<"null">>
      [] v.t = "undefined" -> <<"undefined">>
      [] OTHER -> <<"[object Object]">>

\* 'id' in v, for an object or a list v (a list has no key id).
HasId(v) == v.t = "object" /\ "id" \in DOMAIN v.o

\* formatResponse giving the link alone, without the fields of the response.
formatDecodedLinkOnly(v) ==
    IF ~Truthy(v) \/ TypeOf(v) # "object" THEN Obj([data |-> v])
    ELSE IF HasId(v)
    THEN Obj([call_link |-> Str(<<"https://bey.chat/">> \o TemplateText(v.o["id"]))])
    ELSE v

\* formatResponse from the decoded value on: a value that is no object is
\* wrapped as data; an object with id gets call_link.
formatDecoded(v) ==
    IF ~Truthy(v) \/ TypeOf(v) # "object" THEN Obj([data |-> v])
    ELSE IF HasId(v)
    THEN Obj(Put(v.o, "call_link",
                 Str(<<"https://bey.chat/">> \o TemplateText(v.o["id"]))))
    ELSE v

\* formatResponse of a text, from the result of JSON.parse on.
formatParsed(responseData, parsed) ==
    IF parsed.ok THEN formatDecoded(parsed.v) ELSE Obj([data |-> responseData])

formatResponse(responseData) ==
    IF TypeOf(responseData) = "string"
    THEN formatParsed(responseData, JSONparse(responseData.s))
    ELSE formatDecoded(responseData)

\* Objects the API answers a create with.
AgentObjects ==
    {MkObj([id |-> d, name |-> n, avatar_id |-> av, capabilities |-> cp]) :
        d \in {Absent, W("ag1"), Num(42)}, n \in {Absent, W("Bot")},
        av \in {Absent, W("av1")}, cp \in {Absent, Arr(<< >>), Arr(<<W("x")>>)}}

\* What httpRequest can give: an object, its JSON text, another value, a
\* text that is no JSON, or a failure of the request.
Responses ==
    {Return(o) : o \in AgentObjects}
    \cup {Return(Str(Stringify(o))) : o \in AgentObjects}
    \cup {Return(v) : v \in {Undef, Null, Num(0), Num(5), Bool(TRUE),
                            Arr(<< >>), Str(<<"oops">>), Str(<<"4", "2">>)}}
    \cup {Throw(<<"Request failed with status code 401">>)}

AgentItem == [json |-> EmptyObj, operation |-> "create"]

InitAgent ==
    /\ items = <<AgentItem>>
    /\ continueOnFail \in BOOLEAN
    /\ i = 0
    /\ returnItems = << >>
    /\ pc = "loop"
    /\ output = << >>
    /\ thrown = << >>
    /\ log = << >>
    /\ call \in {[fn |-> "none", arg |-> r] : r \in Responses}
    /\ result = NotCalled

\* formatResponse applied on its own to a response.
CallFormatResponse ==
    /\ call.fn = "none"
    /\ call.arg.ok
    /\ call' = [call EXCEPT !.fn = "formatResponse"]
    /\ result' = Return(formatResponse(call.arg.v))
    /\ UNCHANGED execVars

\* execute on the one item: the request, formatResponse and the push, or
\* the catch block when the request failed; then the return.
CreateAgent ==
    /\ call.fn = "none"
    /\ pc = "loop"
    /\ call' = [call EXCEPT !.fn = "create"]
    /\ i' = 1
    /\ IF call.arg.ok
       THEN /\ returnItems' = <<processedItem(formatResponse(call.arg.v), 0)>>
            /\ pc' = "returned"
            /\ output' = returnItems'
            /\ UNCHANGED thrown
       ELSE IF continueOnFail
       THEN /\ returnItems' = <<errorItem(call.arg.msg, 0)>>
            /\ pc' = "returned"
            /\ output' = returnItems'
            /\ UNCHANGED thrown
       ELSE /\ pc' = "thrown"
            /\ thrown' = call.arg.msg
            /\ UNCHANGED <<returnItems, output>>
    /\ UNCHANGED <<items, continueOnFail, log, result>>

NextAgent == CallFormatResponse \/ CreateAgent

SpecAgent == InitAgent /\ [][NextAgent]_vars

\* The object the response is, or decodes to; Absent for another response.
ResponseObject ==
    IF ~call.arg.ok THEN Absent
    ELSE IF IsRecord(call.arg.v) THEN call.arg.v
    ELSE IF call.arg.v.t = "string" /\ Decodes(call.arg.v.s)
            /\ IsRecord(JSONparse(call.arg.v.s).v)
    THEN JSONparse(call.arg.v.s).v
    ELSE Absent

\* The text of an id in the link.
IdText(id) == IF id.t = "string" THEN id.s ELSE Stringify(id)

\* C25: for a create whose response is an object, or a text that decodes to
\* an object, the one emitted item holds every field of the response, and,
\* when the response has an id, call_link = "https://bey.chat/" followed by
\* the id and nothing else; without an id it is the response with no
\* call_link.
C25_CreateAgentCallLink ==
    (call.fn = "create" /\ ResponseObject # Absent) =>
        /\ pc = "returned"
        /\ Len(output) = 1
        /\ output[1].pairedItem = 0
        /\ output[1].json.t = "object"
        /\ \A k \in DOMAIN ResponseObject.o :
              /\ k \in DOMAIN output[1].json.o
              /\ output[1].json.o[k] = ResponseObject.o[k]
        /\ IF "id" \in DOMAIN ResponseObject.o
           THEN /\ DOMAIN output[1].json.o =
                      DOMAIN ResponseObject.o \cup {"call_link"}
                /\ output[1].json.o["call_link"] =
                      Str(<<"https://bey.chat/">> \o IdText(ResponseObject.o["id"]))
           ELSE output[1].json = ResponseObject

\* A response given as text, with id "ag1" and a name, came out with its
\* fields and the link to ag1.
C25_Witness ==
    /\ call.fn = "create"
    /\ call.arg.ok
    /\ call.arg.v.t = "string"
    /\ ResponseObject = Obj([id |-> W("ag1"), name |-> W("Bot")])
    /\ output =
          <<[json |-> Obj([id |-> W("ag1"), name |-> W("Bot"),
                           call_link |-> Str(<<"https://bey.chat/", "ag1">>)]),
             pairedItem |-> 0]>>

-----------------------------------------------------------------------------
(* The records execute emits for an item (SpecItem)                        *)

\* The item was normalized and its record pushed.
EmittedRecord == OneProcessed /\ HasStep(0, "push")

\* The record pushed for the item.
Record(k) == returnItems[1].json.o[k]

\* C26: with agent-ID filtering on, the record of an item that was
\* normalized has an agent_id that is non-empty, is one of the trimmed
\* pieces of the agentIds string, and is the agent ID the filter tested.
C26_EmittedAgentIdAllowed ==
    (EmittedRecord /\ items[1].filterByAgentIds) =>
        /\ Len(returnItems) = 1
        /\ NonEmptyString(Record("agent_id"))
        /\ Record("agent_id").s \in AllowList(items[1].agentIds)
        /\ Record("agent_id") = ResolvedAgentId(ItemEvent)

\* With agentIds " a1 , a2 " an event of another type with the top-level
\* agentId "a1" and agent_id "a2" was emitted with agent_id "a1".
C26_Witness ==
    /\ EmittedRecord
    /\ items[1].filterByAgentIds
    /\ items[1].agentIds = <<" ", "a1", " ", ",", "a2", " ">>
    /\ Field(ItemEvent, "event_type") = W("ping")
    /\ Field(ItemEvent, "agentId") = W("a1")
    /\ Field(ItemEvent, "agent_id") = W("a2")
    /\ CallDataAgentId(ItemEvent) = Absent
    /\ Record("agent_id") = W("a1")

\* Whether the agentIds string lists no agent ID: every piece between its
\* commas is empty once trimmed.
NoUsableId(agentIdsString) == AllowList(agentIdsString) \subseteq {<< >>}

\* C27 (as claimed): with agent-ID filtering on and an agentIds string that
\* lists no ID once split and trimmed ("," for one), an item whose payload
\* parses ends in the filter-configuration error, as for a blank string; it
\* is not skipped.
C27_NoUsableIdsFail ==
    (OneProcessed /\ items[1].filterByAgentIds
        /\ NoUsableId(items[1].agentIds)
        /\ Parses(items[1].webhookData)) =>
            /\ ItemError = FilterConfigMessage
            /\ ~HasStep(0, "agentIdFilter")

\* C28: every record of a normalized item has the event_type of the payload,
\* or "unknown" when the payload has none; with eventType "message" or
\* "call_ended" the record has that event_type.
C28_RecordEventType ==
    EmittedRecord =>
        /\ Record("event_type") =
              OrWhenAbsent(Field(ItemEvent, "event_type"), W("unknown"))
        /\ items[1].eventType # W("all") =>
              Record("event_type") = items[1].eventType

\* With eventType "call_ended" a call-ended event was emitted as such.
C28_Witness ==
    /\ EmittedRecord
    /\ items[1].eventType = W("call_ended")
    /\ ~items[1].filterByAgentIds
    /\ IsCallEnded(ItemEvent)
    /\ Record("event_type") = W("call_ended")
    /\ pc = "returned"

-----------------------------------------------------------------------------
(* BeyondPresence.webhook: the handler of an inbound request.  The request *)
(* body is call.arg; the records of workflowData[0] are returnItems and    *)
(* output.                                                                 *)

\* The try block from the result of parseWebhookData on: the three-way
\* classification, or the error parseWebhookData threw.
webhookParsed(parsed) ==
    IF ~parsed.ok THEN parsed
    ELSE normalize(parsed.v, getAgentId(parsed.v))

\* The try block.
webhookTry(webhookPayload) ==
    IF ~Truthy(webhookPayload) THEN Throw(<<"Missing webhook data">>)
    ELSE webhookParsed(parseWebhookData(webhookPayload))

\* The record pushed by the try block, or by the catch block for the error
\* the try block threw.
webhookRecord(tried) ==
    IF tried.ok THEN [json |-> tried.v]
    ELSE [json |-> Obj([error |-> Str(tried.msg)])]

\* The handler on the request body: the try block, the catch block and the
\* return of workflowData.
webhook ==
    /\ call.fn = "none"
    /\ call' = [call EXCEPT !.fn = "webhook"]
    /\ returnItems' = <<webhookRecord(webhookTry(call.arg))>>
    /\ output' = returnItems'
    /\ pc' = "returned"
    /\ UNCHANGED <<items, continueOnFail, i, thrown, log, result>>

SpecWebhook == InitHelpers /\ [][webhook]_vars

\* The handler has run on the request body.
WebhookReturned == call.fn = "webhook"

\* The keys of the one record of workflowData[0].
WorkflowRecordKeys == DOMAIN output[1].json.o

\* C30 (as claimed): the handler never throws and returns exactly one
\* record for any request body; for a body that is a non-null object the
\* record is the normalized record (it carries event_type, and no error);
\* for a body that is missing, or is a number, a boolean or a list, the
\* record is {error: message}.
C30_WebhookOneRecord ==
    WebhookReturned =>
        /\ pc = "returned"
        /\ thrown = << >>
        /\ Len(output) = 1
        /\ call.arg.t = "object" =>
              /\ "error" \notin WorkflowRecordKeys
              /\ "event_type" \in WorkflowRecordKeys
        /\ (~Truthy(call.arg) \/ call.arg.t \in {"number", "boolean", "array"}) =>
              WorkflowRecordKeys = {"error"}
====
